---- MODULE Spec2Model ----
(***************************************************************************)
(* Request builders of the Kakao developers client: CoordToDistrict        *)
(* (package local), AnalyzeVideo (package pose) and ThumbnailDetect        *)
(* (package vision), their terminal Collect calls and the persistence of   *)
(* a result.                                                               *)
(*                                                                         *)
(* The model is one sequential caller.  It holds one builder at a time     *)
(* (the value the last chained call returned), the table of file handles   *)
(* the process has opened, the files written to disk and the number of     *)
(* network calls made.  Every library operation is one action.  A panic    *)
(* that leaves a library function is not recovered anywhere in the         *)
(* library, so the process stops there: halted becomes TRUE and no action  *)
(* is enabled any more.  A run builds one chain: a factory call, then      *)
(* setters and Collect calls on the builder each call returned.  SaveAs    *)
(* is a method of a result value and may be called between any two of      *)
(* them, on any result value; it leaves the builder alone.                 *)
(*                                                                         *)
(* Strings that the code only compares or stores are TLA+ strings.         *)
(* Strings that the code converts (authorization keys, file names,         *)
(* formatted coordinates) are sequences of characters or of words.         *)
(***************************************************************************)
EXTENDS Integers, Sequences, FiniteSets

VARIABLES
  b,        \* the builder the caller holds, or NoBuilder
  fds,      \* file handles opened by the process: <<[path, open, eof]>>
  disk,     \* names of the files written by SaveAs
  netCalls, \* number of client.Do invocations so far
  last,     \* the last library call: operation, argument, outcome
  halted    \* TRUE once a panic has left a library function

vars == <<b, fds, disk, netCalls, last, halted>>

\* ---------------------------------------------------------------- bounds
MaxFds == 2        \* os.Open calls per run
MaxCalls == 2      \* client.Do calls per run
MaxWrites == 1     \* ioutil.WriteFile calls per run

\* ------------------------------------------------------------- constants
NoBuilder == [cap |-> "none"]
Nil == "nil"

Formats == {"json", "xml"}
CoordSystems == {"WGS84", "WCONGNAMUL", "CONGNAMUL", "WTM", "TM"}

\* Arguments the caller may pass to the enum setters.
FormatArgs == Formats \cup {"yaml", "JSON"}
CoordArgs == {"WGS84", "WTM", "TM", "wgs84", "KATEC"}

\* Error values.
ErrUnsupportedFormat == "ErrUnsupportedFormat"
ErrInputCoord == "input coordinate system must be one of the following options"
ErrOutputCoord == "output coordinate system must be one of the following options"

\* --------------------------------------------------------------- strings
RECURSIVE TrimLeft(_)
TrimLeft(s) ==
  IF s # <<>> /\ Head(s) = " " THEN TrimLeft(Tail(s)) ELSE s

RECURSIVE TrimRight(_)
TrimRight(s) ==
  IF s # <<>> /\ s[Len(s)] = " " THEN TrimRight(SubSeq(s, 1, Len(s) - 1)) ELSE s

\* strings.TrimSpace
TrimSpace(s) == TrimRight(TrimLeft(s))

\* The authorization scheme prefix, "KakaoAK ".
KeyPrefix == <<"KakaoAK", " ">>

\* Raw secrets the caller may pass to AuthorizeWith.
Keys == {<<>>, <<"k">>, <<" ", "k", " ">>}

\* strconv.FormatFloat(x, 'f', -1, 64) for x = t/10, t an integer: the
\* shortest decimal that reads back as x.
Digit(d) == <<"0", "1", "2", "3", "4", "5", "6", "7", "8", "9">>[d + 1]

RECURSIVE NatDigits(_)
NatDigits(n) ==
  IF n < 10 THEN <<Digit(n)>> ELSE Append(NatDigits(n \div 10), Digit(n % 10))

Abs(t) == IF t < 0 THEN -t ELSE t

FormatTenths(t) ==
  LET a == Abs(t)
      sign == IF t < 0 THEN <<"-">> ELSE <<>>
      frac == IF a % 10 = 0 THEN <<>> ELSE <<".", Digit(a % 10)>>
  IN sign \o NatDigits(a \div 10) \o frac

\* Coordinates the caller may pass, in tenths: -0.5 and 127.1.
CoordInputs == {-5, 1271}

\* ------------------------------------------------------ package local
CoordToDistrict(x, y) ==
  [cap |-> "local",
   X |-> FormatTenths(x),
   Y |-> FormatTenths(y),
   Format |-> "json",
   AuthKey |-> KeyPrefix,
   InputCoord |-> "WGS84",
   OutputCoord |-> "WGS84"]

\* A setter's outcome: the builder after the call, and the panic value that
\* left the function (Nil when it returned).
Returned(self) == [self |-> self, panic |-> Nil]
Panicked(self, v) == [self |-> self, panic |-> v]

\* FormatAs with a slip: no validation; and the assignment made before the
\* validation.
FormatAs_Unchecked(ci, format) == Returned([ci EXCEPT !.Format = format])
FormatAs_AssignFirst(ci, format) ==
  IF format \in {"json", "xml"}
  THEN Returned([ci EXCEPT !.Format = format])
  ELSE Panicked([ci EXCEPT !.Format = format], ErrUnsupportedFormat)

\* The recover() after the switch is not in a deferred function and is not
\* reached after panic: the panic leaves FormatAs.
FormatAs(ci, format) ==
  IF format \in {"json", "xml"}
  THEN Returned([ci EXCEPT !.Format = format])
  ELSE Panicked(ci, ErrUnsupportedFormat)

AuthorizeWithLocal(ci, key) ==
  Returned([ci EXCEPT !.AuthKey = KeyPrefix \o TrimSpace(key)])

Input(ci, coord) ==
  IF coord \in {"WGS84", "WCONGNAMUL", "CONGNAMUL", "WTM", "TM"}
  THEN Returned([ci EXCEPT !.InputCoord = coord])
  ELSE Panicked(ci, ErrInputCoord)

Output(ci, coord) ==
  IF coord \in {"WGS84", "WCONGNAMUL", "CONGNAMUL", "WTM", "TM"}
  THEN Returned([ci EXCEPT !.OutputCoord = coord])
  ELSE Panicked(ci, ErrOutputCoord)

\* ------------------------------------------- net/http and the decoders
\* Strings standing for ones that hold an ASCII control byte: url.Parse, and
\* so http.NewRequest, refuses them.
HasCTLByte(s) == s \in {"http://ctl", "ctl.mp4"}

RequestBuildError == "RequestBuildError"
TransportError == "TransportError"
DecodeError == "DecodeError"

\* What the network does with one request: the transport fails, or a
\* response arrives with a body.  A body is JSON, XML or neither; a
\* well-formed body may hold a value of the wrong type for the last field,
\* and the decoder then reports an error after filling the fields before it.
Respond(body) == [transport |-> "ok", body |-> body]
NoResponse(zero) == [transport |-> "fail", body |-> [enc |-> "none", mistyped |-> FALSE, payload |-> zero, partial |-> zero]]

Body(enc, mistyped, payload, partial) ==
  [enc |-> enc, mistyped |-> mistyped, payload |-> payload, partial |-> partial]

Decode(enc, body, zero) ==
  IF body.enc # enc THEN [res |-> zero, err |-> DecodeError]
  ELSE IF body.mistyped THEN [res |-> body.partial, err |-> DecodeError]
  ELSE [res |-> body.payload, err |-> Nil]

\* A Collect's outcome: the receiver after the call, the result and error
\* returned, whether client.Do was invoked, the decoders run and the file
\* handle closed (0: none).  The handle the receiver holds is read to its
\* end by io.Copy on every path.
Outcome(self, res, err, sent, dec, closed) ==
  [self |-> self, res |-> res, err |-> err, sent |-> sent, dec |-> dec,
   closed |-> closed]

\* io.Copy from handle h (0: none): an open handle ends at end of file, a
\* closed one cannot be read and the error is dropped.
Copied(files, h) ==
  IF h # 0 /\ files[h].open THEN [files EXCEPT ![h].eof = TRUE] ELSE files

\* File.Close on handle h (0: nil, an error and nothing closed).
Closed(files, h) ==
  IF h # 0 THEN [files EXCEPT ![h].open = FALSE] ELSE files

\* ------------------------------------------ package local: Collect, SaveAs
ZeroLocal == [TotalCount |-> 0, Documents |-> <<>>]
Region(x) == [AddressName |-> "Seongnam", X |-> x, Y |-> "37.4"]
OneRegion(x) == [TotalCount |-> 1, Documents |-> <<Region(x)>>]
LocalPartial == [TotalCount |-> 1, Documents |-> <<>>]

LocalBodies ==
  {Body("json", FALSE, OneRegion("127.1"), LocalPartial),
   Body("json", TRUE, OneRegion("127.1"), LocalPartial),
   Body("json", FALSE, ZeroLocal, ZeroLocal),
   Body("xml", FALSE, OneRegion("127.1"), LocalPartial),
   Body("xml", FALSE, OneRegion("NaN"), LocalPartial),
   Body("junk", FALSE, ZeroLocal, ZeroLocal)}

\* The request URL is built from prefix, Format, X, Y and the two coordinate
\* systems.
LocalURLParts(ci) == {ci.Format, ci.InputCoord, ci.OutputCoord}

\* Collect with a slip: the error of client.Do is dropped.
CollectLocal_SwallowTransport(ci, env) ==
  IF \E s \in LocalURLParts(ci) : HasCTLByte(s)
  THEN Outcome(ci, ZeroLocal, RequestBuildError, FALSE, {}, 0)
  ELSE IF env.transport = "fail"
  THEN Outcome(ci, ZeroLocal, Nil, TRUE, {}, 0)
  ELSE IF ci.Format = "json"
  THEN LET d == Decode("json", env.body, ZeroLocal)
       IN Outcome(ci, d.res, d.err, TRUE, {"json"}, 0)
  ELSE IF ci.Format = "xml"
  THEN LET d == Decode("xml", env.body, ZeroLocal)
       IN Outcome(ci, d.res, d.err, TRUE, {"xml"}, 0)
  ELSE Outcome(ci, ZeroLocal, Nil, TRUE, {}, 0)

CollectLocal(ci, env) ==
  IF \E s \in LocalURLParts(ci) : HasCTLByte(s)
  THEN Outcome(ci, ZeroLocal, RequestBuildError, FALSE, {}, 0)
  ELSE IF env.transport = "fail"
  THEN Outcome(ci, ZeroLocal, TransportError, TRUE, {}, 0)
  ELSE IF ci.Format = "json"
  THEN LET d == Decode("json", env.body, ZeroLocal)
       IN Outcome(ci, d.res, d.err, TRUE, {"json"}, 0)
  ELSE IF ci.Format = "xml"
  THEN LET d == Decode("xml", env.body, ZeroLocal)
       IN Outcome(ci, d.res, d.err, TRUE, {"xml"}, 0)
  ELSE Outcome(ci, ZeroLocal, Nil, TRUE, {}, 0)

\* File names the caller may pass to SaveAs, as sequences of words; "." and
\* "/" are words of their own and no other word holds either.
FileNames ==
  {<<"out", ".", "json">>, <<"out", ".", "xml">>, <<"out", ".", "txt">>,
   <<"json">>, <<"a", ".", "b", "/", "json">>, <<"out", ".">>}

\* tokens[len(tokens)-1] of strings.Split(filename, "."): what follows the
\* last ".", the whole name when it holds none.
RECURSIVE LastToken(_)
LastToken(name) ==
  IF \E i \in 1..Len(name) : name[i] = "."
  THEN LastToken(Tail(name))
  ELSE name

\* json.MarshalIndent refuses a NaN float; xml.MarshalIndent writes it.
MarshalJSONFails(cr) ==
  \E i \in 1..Len(cr.Documents) : "NaN" \in {cr.Documents[i].X, cr.Documents[i].Y}

MarshalError == "json: unsupported value"

WriteError == "open: permission denied"

\* ioutil.WriteFile: writable says whether the file system accepts the file.
WriteFile(filename, writable) ==
  IF writable
  THEN [err |-> Nil, written |-> {filename}]
  ELSE [err |-> WriteError, written |-> {}]

\* SaveAs's outcome: the error returned and the names of the files written.
SaveAs(cr, filename, writable) ==
  LET ext == LastToken(filename)
  IN IF ext = <<"json">>
     THEN IF MarshalJSONFails(cr)
          THEN [err |-> MarshalError, written |-> {}]
          ELSE WriteFile(filename, writable)
     ELSE IF ext = <<"xml">>
     THEN WriteFile(filename, writable)
     ELSE [err |-> ErrUnsupportedFormat, written |-> {}]

RECURSIVE BaseName(_)
BaseName(name) ==
  IF \E i \in 1..Len(name) : name[i] = "/" THEN BaseName(Tail(name)) ELSE name

NoExt == <<>>

\* The extension of a file name: what follows the last "." of its last path
\* element, none when that element holds no ".".
Ext(name) ==
  LET base == BaseName(name)
  IN IF \E i \in 1..Len(base) : base[i] = "." THEN LastToken(base) ELSE NoExt

\* Results the caller may hold: the values Collect can return.
LocalResults == {ZeroLocal, OneRegion("127.1"), OneRegion("NaN")}

\* ------------------------------------------------------- the file system
\* Paths the caller may name.  os.Open fails on a path that names no file;
\* Stat on a handle just opened reports the file's size.
MiB == 1024 * 1024

Exists(path) == path \notin {"missing.mp4", "missing.jpg"}

FileSize(path) ==
  CASE path = "edge.mp4" -> 50 * MiB
    [] path = "big.mp4" -> 50 * MiB + 1
    [] OTHER -> 1024

PathError == "open: no such file or directory"

\* The handle an os.Open of path adds to the table.
Handle(path) == [path |-> path, open |-> TRUE, eof |-> FALSE]

\* ------------------------------------------------------- package common
\* common.KeyPrefix and common.FormatKey: the prefix, and the prefix
\* followed by the trimmed secret.
CommonKeyPrefix == <<"KakaoAK", " ">>
FormatKey(key) == CommonKeyPrefix \o TrimSpace(key)

\* --------------------------------------------------------- package pose
VideoURLs == {"", "https://example.com/a.mp4", "http://ctl"}
CallbackURLs == {"", "https://example.com/done"}
VideoPaths == {"small.mp4", "edge.mp4", "big.mp4", "ctl.mp4", "missing.mp4"}

AnalyzeVideo ==
  [cap |-> "pose",
   AuthKey |-> CommonKeyPrefix,
   VideoURL |-> "",
   File |-> 0,
   Smoothing |-> TRUE,
   CallbackURL |-> ""]

\* WithURL returns a new builder and leaves its receiver alone.
WithURL(ai, url) ==
  [cap |-> "pose",
   AuthKey |-> CommonKeyPrefix,
   VideoURL |-> url,
   File |-> 0,
   Smoothing |-> TRUE,
   CallbackURL |-> ""]

ErrTooLarge == "up to 50MB are allowed"

\* The size check with a slip in the limit.
TooLarge_ExtraDigit(size) == size > 500 * 1024 * 1024
TooLarge(size) == size > 50 * 1024 * 1024

\* WithFile's outcome: the builder returned (NoBuilder when it panics), the
\* panic value and whether os.Open returned a handle; fd is the index the
\* handle gets in the table.  No path closes the handle.
\* (WithFile_InPlace: WithFile with a slip, the handle stored in the receiver
\* and the URL kept.)
WithFile_InPlace(ai, filepath, fd) ==
  IF ~Exists(filepath)
  THEN [ret |-> NoBuilder, panic |-> PathError, opened |-> FALSE]
  ELSE IF TooLarge(FileSize(filepath))
  THEN [ret |-> NoBuilder, panic |-> ErrTooLarge, opened |-> TRUE]
  ELSE [ret |-> [ai EXCEPT !.File = fd], panic |-> Nil, opened |-> TRUE]

WithFile(ai, filepath, fd) ==
  IF ~Exists(filepath)
  THEN [ret |-> NoBuilder, panic |-> PathError, opened |-> FALSE]
  ELSE IF TooLarge(FileSize(filepath))
  THEN [ret |-> NoBuilder, panic |-> ErrTooLarge, opened |-> TRUE]
  ELSE [ret |-> [cap |-> "pose",
                 AuthKey |-> CommonKeyPrefix,
                 VideoURL |-> "",
                 File |-> fd,
                 Smoothing |-> FALSE,
                 CallbackURL |-> ""],
        panic |-> Nil, opened |-> TRUE]

AuthorizeWithPose(ai, key) == Returned([ai EXCEPT !.AuthKey = FormatKey(key)])
SetSmoothing(ai, set) == Returned([ai EXCEPT !.Smoothing = set])
ReceiveTo(ai, url) == Returned([ai EXCEPT !.CallbackURL = url])

ZeroPose == [JobId |-> ""]

PoseBodies ==
  {Body("json", FALSE, [JobId |-> "job-1"], ZeroPose),
   Body("json", TRUE, [JobId |-> "job-1"], ZeroPose),
   Body("junk", FALSE, ZeroPose, ZeroPose)}

\* The request URL carries File.Name() when a file is attached, VideoURL
\* otherwise.  The file is read into the multipart body and never closed.
\* CreateFormFile writes to a bytes.Buffer and does not fail.
CollectPose(ai, files, env) ==
  LET target == IF ai.File # 0 THEN files[ai.File].path ELSE ai.VideoURL
  IN IF HasCTLByte(target)
     THEN Outcome(ai, ZeroPose, RequestBuildError, FALSE, {}, 0)
     ELSE IF env.transport = "fail"
     THEN Outcome(ai, ZeroPose, TransportError, TRUE, {}, 0)
     ELSE LET d == Decode("json", env.body, ZeroPose)
          IN Outcome(ai, d.res, d.err, TRUE, {"json"}, 0)

\* ------------------------------------------------------- package vision
ImageSources == {"https://example.com/a.jpg", "a.jpg", "missing.jpg"}
IsURL(source) == source \in {"https://example.com/a.jpg"}

\* CheckSourceType: a remote URL and no file, or no URL and the handle of
\* the file just opened; when the file cannot be opened it fails with an
\* IOError.  It has no error result and neither has ThumbnailDetect, so the
\* failure reaches the caller as a panic and no builder is made.
IOError == "IOError"

CheckSourceType(source, fd) ==
  IF IsURL(source)
  THEN [url |-> source, file |-> 0, panic |-> Nil, opened |-> FALSE]
  ELSE IF Exists(source)
  THEN [url |-> "", file |-> fd, panic |-> Nil, opened |-> TRUE]
  ELSE [url |-> "", file |-> 0, panic |-> IOError, opened |-> FALSE]

ThumbnailDetect(src) ==
  [cap |-> "vision",
   AuthKey |-> CommonKeyPrefix,
   ImageUrl |-> src.url,
   Image |-> src.file,
   Width |-> 0,
   Height |-> 0]

Ratios == {0, 3}

AuthorizeWithVision(ti, key) == Returned([ti EXCEPT !.AuthKey = FormatKey(key)])
WidthTo(ti, ratio) == Returned([ti EXCEPT !.Width = ratio])
HeightTo(ti, ratio) == Returned([ti EXCEPT !.Height = ratio])

ZeroVision ==
  [Rid |-> "", Result |-> [Width |-> 0, Height |-> 0,
                           Thumbnail |-> [X |-> 0, Y |-> 0, Width |-> 0, Height |-> 0]]]
OneThumbnail ==
  [Rid |-> "rid-1", Result |-> [Width |-> 8, Height |-> 6,
                                Thumbnail |-> [X |-> 1, Y |-> 0, Width |-> 6, Height |-> 6]]]
VisionPartial == [ZeroVision EXCEPT !.Rid = "rid-1"]

VisionBodies ==
  {Body("json", FALSE, OneThumbnail, VisionPartial),
   Body("json", TRUE, OneThumbnail, VisionPartial),
   Body("junk", FALSE, ZeroVision, ZeroVision)}

VisionResults == {ZeroVision, OneThumbnail}

\* common.SaveAsJSON: the extension must be json; the result is written as
\* indented JSON, and any other extension is refused with nothing written.
SaveAsJSON(tr, filename, writable) ==
  IF Ext(filename) = <<"json">>
  THEN WriteFile(filename, writable)
  ELSE [err |-> ErrUnsupportedFormat, written |-> {}]

\* ThumbnailDetectResult.SaveAs
SaveAsThumbnail(tr, filename, writable) == SaveAsJSON(tr, filename, writable)

\* The deferred Image.Close() is registered after the request is built: a
\* request-construction failure returns before it.  Close on a nil handle
\* returns an error and closes nothing.
\* (CollectVision_DropImage: Collect with a slip, Image reset once closed.)
CollectVision_DropImage(ti, env) ==
  IF HasCTLByte(ti.ImageUrl)
  THEN Outcome(ti, ZeroVision, RequestBuildError, FALSE, {}, 0)
  ELSE IF env.transport = "fail"
  THEN Outcome([ti EXCEPT !.Image = 0], ZeroVision, TransportError, TRUE, {}, ti.Image)
  ELSE LET d == Decode("json", env.body, ZeroVision)
       IN Outcome([ti EXCEPT !.Image = 0], d.res, d.err, TRUE, {"json"}, ti.Image)

CollectVision(ti, env) ==
  IF HasCTLByte(ti.ImageUrl)
  THEN Outcome(ti, ZeroVision, RequestBuildError, FALSE, {}, 0)
  ELSE IF env.transport = "fail"
  THEN Outcome(ti, ZeroVision, TransportError, TRUE, {}, ti.Image)
  ELSE LET d == Decode("json", env.body, ZeroVision)
       IN Outcome(ti, d.res, d.err, TRUE, {"json"}, ti.Image)

\* ------------------------------------------------------------- the caller
\* The record of a call: the operation and its argument, the receiver before
\* the call, the panic that left it (Nil: it returned), and for Collect and
\* SaveAs the result and error returned, whether client.Do was invoked, the
\* decoders run and the network's answer; net0 is the number of network
\* calls made before it and wrote the names of the files it wrote.
Call(op, arg, pre, panic) ==
  [op |-> op, arg |-> arg, pre |-> pre, panic |-> panic,
   res |-> Nil, err |-> Nil, sent |-> FALSE, dec |-> {}, env |-> Nil,
   net0 |-> netCalls, wrote |-> {}]

Terminal(op, arg, pre, out, env) ==
  [op |-> op, arg |-> arg, pre |-> pre, panic |-> Nil,
   res |-> out.res, err |-> out.err, sent |-> out.sent, dec |-> out.dec,
   env |-> env, net0 |-> netCalls, wrote |-> {}]

Envs(bodies, zero) == {NoResponse(zero)} \cup {Respond(body) : body \in bodies}

Init ==
  /\ b = NoBuilder
  /\ fds = <<>>
  /\ disk = {}
  /\ netCalls = 0
  /\ last = Call("start", Nil, NoBuilder, Nil)
  /\ halted = FALSE

\* One chain per run: a factory is called while no builder is held.
AtStart == ~halted /\ b = NoBuilder
Holding(cap) == ~halted /\ b.cap = cap

\* A setter that mutates its receiver in place and returns it.
Setter(op, arg, out) ==
  /\ b' = out.self
  /\ last' = Call(op, arg, b, out.panic)
  /\ halted' = (out.panic # Nil)
  /\ UNCHANGED <<fds, disk, netCalls>>

\* A terminal call on the held builder; held is the file handle the builder
\* refers to (0: none).
Collect(out, env, held) ==
  /\ netCalls < MaxCalls
  /\ b' = out.self
  /\ last' = Terminal("Collect", Nil, b, out, env)
  /\ netCalls' = IF out.sent THEN netCalls + 1 ELSE netCalls
  /\ fds' = Closed(Copied(fds, held), out.closed)
  /\ UNCHANGED <<disk, halted>>

DoCoordToDistrict ==
  /\ AtStart
  /\ \E x, y \in CoordInputs :
       /\ b' = CoordToDistrict(x, y)
       /\ last' = Call("CoordToDistrict", <<x, y>>, NoBuilder, Nil)
  /\ UNCHANGED <<fds, disk, netCalls, halted>>

DoFormatAs ==
  /\ Holding("local")
  /\ \E format \in FormatArgs : Setter("FormatAs", format, FormatAs(b, format))

DoInput ==
  /\ Holding("local")
  /\ \E coord \in CoordArgs : Setter("Input", coord, Input(b, coord))

DoOutput ==
  /\ Holding("local")
  /\ \E coord \in CoordArgs : Setter("Output", coord, Output(b, coord))

DoAuthorizeWithLocal ==
  /\ Holding("local")
  /\ \E key \in Keys : Setter("AuthorizeWith", key, AuthorizeWithLocal(b, key))

DoCollectLocal ==
  /\ Holding("local")
  /\ \E env \in Envs(LocalBodies, ZeroLocal) : Collect(CollectLocal(b, env), env, 0)

\* A run works with one package: the results it saves are those of the
\* package whose builder it holds.
Using(cap) == ~halted /\ b.cap = cap

\* A SaveAs call on a result value: the disk may change, nothing else does.
Persist(op, cr, filename, out) ==
  /\ Cardinality(disk) < MaxWrites
  /\ disk' = disk \cup out.written
  /\ last' = [Call(op, filename, b, Nil)
                EXCEPT !.res = cr, !.err = out.err, !.wrote = out.written]
  /\ UNCHANGED <<b, fds, netCalls, halted>>

DoSaveAs ==
  /\ Using("local")
  /\ \E cr \in LocalResults, filename \in FileNames, writable \in BOOLEAN :
       Persist("SaveAs", cr, filename, SaveAs(cr, filename, writable))

DoAnalyzeVideo ==
  /\ AtStart
  /\ b' = AnalyzeVideo
  /\ last' = Call("AnalyzeVideo", Nil, NoBuilder, Nil)
  /\ UNCHANGED <<fds, disk, netCalls, halted>>

DoWithURL ==
  /\ Holding("pose")
  /\ \E url \in VideoURLs :
       /\ b' = WithURL(b, url)
       /\ last' = Call("WithURL", url, b, Nil)
  /\ UNCHANGED <<fds, disk, netCalls, halted>>

DoWithFile ==
  /\ Holding("pose")
  /\ Len(fds) < MaxFds
  /\ \E filepath \in VideoPaths :
       LET out == WithFile(b, filepath, Len(fds) + 1)
       IN /\ b' = IF out.panic = Nil THEN out.ret ELSE b
          /\ fds' = IF out.opened THEN Append(fds, Handle(filepath)) ELSE fds
          /\ last' = Call("WithFile", filepath, b, out.panic)
          /\ halted' = (out.panic # Nil)
  /\ UNCHANGED <<disk, netCalls>>

DoAuthorizeWithPose ==
  /\ Holding("pose")
  /\ \E key \in Keys : Setter("AuthorizeWith", key, AuthorizeWithPose(b, key))

DoSetSmoothing ==
  /\ Holding("pose")
  /\ \E set \in BOOLEAN : Setter("SetSmoothing", set, SetSmoothing(b, set))

DoReceiveTo ==
  /\ Holding("pose")
  /\ \E url \in CallbackURLs : Setter("ReceiveTo", url, ReceiveTo(b, url))

DoCollectPose ==
  /\ Holding("pose")
  /\ \E env \in Envs(PoseBodies, ZeroPose) : Collect(CollectPose(b, fds, env), env, b.File)

DoThumbnailDetect ==
  /\ AtStart
  /\ \E source \in ImageSources :
       LET src == CheckSourceType(source, Len(fds) + 1)
       IN /\ b' = IF src.panic = Nil THEN ThumbnailDetect(src) ELSE b
          /\ fds' = IF src.opened THEN Append(fds, Handle(source)) ELSE fds
          /\ last' = Call("ThumbnailDetect", source, NoBuilder, src.panic)
          /\ halted' = (src.panic # Nil)
  /\ UNCHANGED <<disk, netCalls>>

DoSaveAsThumbnail ==
  /\ Using("vision")
  /\ \E tr \in VisionResults, filename \in FileNames, writable \in BOOLEAN :
       Persist("SaveAsThumbnail", tr, filename,
               SaveAsThumbnail(tr, filename, writable))

DoAuthorizeWithVision ==
  /\ Holding("vision")
  /\ \E key \in Keys : Setter("AuthorizeWith", key, AuthorizeWithVision(b, key))

DoWidthTo ==
  /\ Holding("vision")
  /\ \E ratio \in Ratios : Setter("WidthTo", ratio, WidthTo(b, ratio))

DoHeightTo ==
  /\ Holding("vision")
  /\ \E ratio \in Ratios : Setter("HeightTo", ratio, HeightTo(b, ratio))

DoCollectVision ==
  /\ Holding("vision")
  /\ \E env \in Envs(VisionBodies, ZeroVision) : Collect(CollectVision(b, env), env, b.Image)

Next ==
  \/ DoCoordToDistrict
  \/ DoFormatAs
  \/ DoInput
  \/ DoOutput
  \/ DoAuthorizeWithLocal
  \/ DoCollectLocal
  \/ DoSaveAs
  \/ DoAnalyzeVideo
  \/ DoWithURL
  \/ DoWithFile
  \/ DoAuthorizeWithPose
  \/ DoSetSmoothing
  \/ DoReceiveTo
  \/ DoCollectPose
  \/ DoThumbnailDetect
  \/ DoAuthorizeWithVision
  \/ DoWidthTo
  \/ DoHeightTo
  \/ DoCollectVision
  \/ DoSaveAsThumbnail

Spec == Init /\ [][Next]_vars

\* ================================================================ claims
EnumSetters == {"FormatAs", "Input", "Output"}

ValidArg(op, arg) ==
  IF op = "FormatAs" THEN arg \in Formats ELSE arg \in CoordSystems

FieldOf(op, ci) ==
  CASE op = "FormatAs" -> ci.Format
    [] op = "Input" -> ci.InputCoord
    [] op = "Output" -> ci.OutputCoord

\* The value an enum setter fails with on an argument outside its set.
InvalidArgument(op) ==
  CASE op = "FormatAs" -> ErrUnsupportedFormat
    [] op = "Input" -> ErrInputCoord
    [] op = "Output" -> ErrOutputCoord

\* C1: FormatAs, Input and Output succeed on every valid value and leave the
\* field equal to it; on every invalid value the call fails with the
\* setter's invalid-argument error (as a panic that leaves the setter) and
\* the builder, the field included, is as it was before the call.
C1_EnumSetters ==
  last.op \in EnumSetters =>
    IF ValidArg(last.op, last.arg)
    THEN /\ last.panic = Nil
         /\ FieldOf(last.op, b) = last.arg
    ELSE /\ last.panic = InvalidArgument(last.op)
         /\ FieldOf(last.op, b) = FieldOf(last.op, last.pre)
         /\ b = last.pre

C1_Witness ==
  /\ last.op = "Input"
  /\ last.arg = "KATEC"
  /\ last.panic = ErrInputCoord
  /\ b.InputCoord = "TM"

HeldFile(bb) ==
  CASE bb.cap = "pose" -> bb.File
    [] bb.cap = "vision" -> bb.Image
    [] OTHER -> 0

\* C2: when a Collect call on a builder that holds a file handle has
\* returned, on any exit path, that handle is closed.
C2_FileClosedAfterCollect ==
  (last.op = "Collect" /\ HeldFile(last.pre) # 0) =>
    ~fds[HeldFile(last.pre)].open

\* C3: WithFile on a file larger than 50 MiB fails with the too-large error;
\* the call makes no network call, returns no builder that holds the file,
\* and nothing runs after it.
C3_OversizeRejected ==
  (last.op = "WithFile" /\ Exists(last.arg) /\ FileSize(last.arg) > 50 * MiB) =>
    /\ last.panic = ErrTooLarge
    /\ netCalls = last.net0
    /\ ~last.sent
    /\ b = last.pre
    /\ HeldFile(b) # Len(fds)
    /\ halted

C3_Witness ==
  /\ last.op = "WithFile"
  /\ last.arg = "big.mp4"
  /\ last.panic = ErrTooLarge
  /\ fds[Len(fds)] = Handle("big.mp4")
  /\ halted

OneSource(bb) ==
  CASE bb.cap = "pose" -> ~(bb.VideoURL # "" /\ bb.File # 0)
    [] bb.cap = "vision" -> ~(bb.ImageUrl # "" /\ bb.Image # 0)
    [] OTHER -> TRUE

\* C4: a builder never has both a non-empty URL and a file handle, and the
\* builder WithURL or WithFile returns has the other source cleared.
C4_OneSource ==
  /\ OneSource(b)
  /\ (last.op = "WithURL" /\ last.panic = Nil) =>
       (b.VideoURL = last.arg /\ b.File = 0)
  /\ (last.op = "WithFile" /\ last.panic = Nil) =>
       (b.File # 0 /\ b.VideoURL = "")

C4_Witness ==
  /\ last.op = "WithFile"
  /\ last.panic = Nil
  /\ last.pre.VideoURL # ""
  /\ b.File # 0

\* C5: no public operation ends in a panic that leaves the library.  Stated
\* for the operations whose panics start in the three source files: the
\* panic of ThumbnailDetect on a file that cannot be opened starts in
\* CheckSourceType, which is defined elsewhere.
C5_NoPanic == last.op # "ThumbnailDetect" => (last.panic = Nil /\ ~halted)

Zero(cap) ==
  CASE cap = "local" -> ZeroLocal
    [] cap = "pose" -> ZeroPose
    [] cap = "vision" -> ZeroVision

\* C6: a Collect whose network call fails at transport level returns the
\* transport error and the zero Result.
C6_TransportFailure ==
  (last.op = "Collect" /\ last.sent /\ last.env.transport = "fail") =>
    /\ last.err # Nil
    /\ last.err = TransportError
    /\ last.res = Zero(last.pre.cap)

C6_Witness ==
  /\ last.op = "Collect"
  /\ last.sent
  /\ last.env.transport = "fail"
  /\ last.err = TransportError
  /\ last.pre.cap = "local"
  /\ last.pre.Format = "xml"

\* C7: after Collect returns, with or without an error, every field of the
\* builder is what it was before the call; SaveAs leaves the builder alone
\* as well, so fields change through setters only.
C7_CollectReadsOnly ==
  last.op \in {"Collect", "SaveAs", "SaveAsThumbnail"} => b = last.pre

C7_Witness ==
  /\ last.op = "Collect"
  /\ last.err # Nil
  /\ b.cap = "vision"
  /\ b.Image # 0
  /\ ~fds[b.Image].open
  /\ b.Width = 3

\* C8: SaveAs with an extension other than json and xml returns
\* ErrUnsupportedFormat and writes nothing; it writes a file only when the
\* extension is json or xml.
C8_SaveAsByExtension ==
  last.op = "SaveAs" =>
    /\ Ext(last.arg) \notin {<<"json">>, <<"xml">>} =>
         (last.err = ErrUnsupportedFormat /\ last.wrote = {})
    /\ last.wrote # {} => Ext(last.arg) \in {<<"json">>, <<"xml">>}

PoseSetters == {"WithURL", "WithFile", "AuthorizeWith", "SetSmoothing", "ReceiveTo"}

OwnFields(op) ==
  CASE op \in {"WithURL", "WithFile"} -> {"VideoURL", "File"}
    [] op = "AuthorizeWith" -> {"AuthKey"}
    [] op = "SetSmoothing" -> {"Smoothing"}
    [] op = "ReceiveTo" -> {"CallbackURL"}

\* C9: the builder an AnalyzeVideo setter returns differs from its receiver
\* in the setter's own field only: the key, the smoothing flag and the
\* callback set earlier are still in effect after WithURL or WithFile.
C9_SettersAccumulate ==
  (last.pre.cap = "pose" /\ last.op \in PoseSetters /\ last.panic = Nil) =>
    /\ \A f \in DOMAIN b \ OwnFields(last.op) : b[f] = last.pre[f]

\* C10: a CoordToDistrict builder's Format and coordinate systems stay in
\* their sets, and a Collect that receives a response runs exactly the
\* decoder Format names.
C10_FormatDecides ==
  /\ b.cap = "local" =>
       /\ b.Format \in Formats
       /\ b.InputCoord \in CoordSystems
       /\ b.OutputCoord \in CoordSystems
  /\ (last.op = "Collect" /\ last.pre.cap = "local" /\ last.sent
        /\ last.env.transport = "ok") =>
       /\ Cardinality(last.dec) = 1
       /\ last.dec = {last.pre.Format}

C10_Witness ==
  /\ last.op = "Collect"
  /\ last.pre.cap = "local"
  /\ last.pre.Format = "xml"
  /\ last.env.transport = "ok"
  /\ last.dec = {"xml"}
  /\ last.err = Nil
  /\ last.res = OneRegion("127.1")

====
